---- MODULE Spec2Model ----
(***************************************************************************)
(* A model of the ETL normalisation pipeline (MetadataETL, BenchmarkETL),  *)
(* its sinks (helpers_export) and the dashboard request flow               *)
(* (PortfolioDashboard) of the portfolio analytics application.            *)
(***************************************************************************)
EXTENDS Integers, Sequences, FiniteSets, TLC

VARIABLES
    cfg,             \* the Config object: column groups per dataset
    df_raw,          \* df_raw[p]: self.df_raw of pipeline object p
    df_transformed,  \* df_transformed[p]: self.df_transformed of pipeline object p
    hist,            \* hist[p]: whether an extract(), a transform() of p has succeeded,
                     \* and whether a call on p has raised
    last,            \* the last call: who, what, with which arguments, how it ended
    nhist,           \* results of successive applications of the numeric step
    csv,             \* the metadata flat file on disk
    remote,          \* the remote price source
    requests,        \* the requests the last extract() sent to the remote price source
    db,              \* the relational store: table name -> contents, if the table exists
    xlsx,            \* the tabular output artifact: whether it exists, and its sheets
    sink,            \* whether writing to each sink works
    df,              \* PortfolioDashboard.df, the merged frame
    run              \* what the last run of display() did

vars == <<cfg, df_raw, df_transformed, hist, last, nhist, csv, remote, requests, db, xlsx,
          sink, df, run>>

Pipelines == {"metadata", "benchmark"}

(***************************************************************************)
(* Cells of a pandas frame.  A cell carries its kind (the Python type the  *)
(* column holds) and its value written as text.                            *)
(***************************************************************************)
NaN == [k |-> "nan", v |-> "nan"]
NaT == [k |-> "nat", v |-> "NaT"]
Num(s) == [k |-> "num", v |-> s]
Str(s) == [k |-> "str", v |-> s]
Date(s) == [k |-> "date", v |-> s]

IsMissing(c) == c.k \in {"nan", "nat"}

\* text tokens that parse as a number, and as a calendar date
NumericStrings == {"7"}
DateStrings == {"2020-01-02"}

Raised(c) == [ok |-> FALSE, c |-> c]
Value(c) == [ok |-> TRUE, c |-> c]

\* value mutated the way a coercion that rescales on every pass would
to_numeric_rescaling(c) ==
    CASE c.k = "num" -> Value(Num(c.v \o "00"))
      [] c.k = "str" /\ c.v \in NumericStrings -> Value(Num(c.v))
      [] c.k = "str" -> Raised(c)
      [] OTHER -> Value(c)

\* pd.to_numeric(series) on one cell, errors="raise" (the default)
to_numeric(c) ==
    CASE c.k = "num" -> Value(c)
      [] c.k = "nan" -> Value(NaN)
      [] c.k = "str" /\ c.v \in NumericStrings -> Value(Num(c.v))
      [] c.k = "str" /\ c.v = "nan" -> Value(NaN)
      [] c.k = "str" -> Raised(c)
      [] c.k = "date" -> Value(Num("ns(" \o c.v \o ")"))
      [] c.k = "nat" -> Value(Num("-9223372036854775808"))

\* a parser that coerces what it cannot parse (errors="coerce")
to_datetime_coerce(c) ==
    CASE c.k = "date" -> Value(c)
      [] c.k = "str" /\ c.v \in DateStrings -> Value(Date(c.v))
      [] c.k = "num" -> Value(Date("1970-01-01 00:00:00+" \o c.v \o "ns"))
      [] OTHER -> Value(NaT)

\* pd.to_datetime(series) on one cell, errors="raise" (the default)
to_datetime(c) ==
    CASE c.k = "date" -> Value(c)
      [] c.k \in {"nan", "nat"} -> Value(NaT)
      [] c.k = "str" /\ c.v \in DateStrings -> Value(Date(c.v))
      [] c.k = "str" -> Raised(c)
      [] c.k = "num" -> Value(Date("1970-01-01 00:00:00+" \o c.v \o "ns"))

\* series.astype(str) on one cell: never raises, a missing value becomes text
astype_str(c) == Str(c.v)

(***************************************************************************)
(* Frames: a sequence of columns, each a name and a sequence of cells.     *)
(***************************************************************************)
Column(n, vs) == [name |-> n, vals |-> vs]
Names(f) == {f[i].name : i \in DOMAIN f}
HasCol(f, n) == n \in Names(f)

None == [some |-> FALSE, frame |-> <<>>]
Some(f) == [some |-> TRUE, frame |-> f]

Failed(f) == [ok |-> FALSE, frame |-> f]
Done(f) == [ok |-> TRUE, frame |-> f]

\* columns_new_names.get(col, col)
NewName(columns, col) ==
    IF col \in DOMAIN columns.columns_new_names
    THEN columns.columns_new_names[col]
    ELSE col

\* a drop step that looks the column up under its new name, as step 4 does
drop_columns_by_new_name(f, columns) ==
    SelectSeq(f, LAMBDA c : NewName(columns, c.name) \notin columns.columns_to_drop)

\* step 1: for col in columns_to_drop: if col in df.columns: df.drop(col)
drop_columns(f, columns) ==
    SelectSeq(f, LAMBDA c : c.name \notin columns.columns_to_drop)

\* step 2: for col in columns_date: if col in df.columns: pd.to_datetime
date_columns(f, columns) ==
    LET hit == {i \in DOMAIN f : f[i].name \in columns.columns_date}
    IN  IF \E i \in hit : \E j \in DOMAIN f[i].vals : ~to_datetime(f[i].vals[j]).ok
        THEN Failed(f)
        ELSE Done([i \in DOMAIN f |->
                 IF i \in hit
                 THEN Column(f[i].name,
                             [j \in DOMAIN f[i].vals |-> to_datetime(f[i].vals[j]).c])
                 ELSE f[i]])

\* step 3: for col in columns_numeric: if col in df.columns: pd.to_numeric
numeric_columns(f, columns) ==
    LET hit == {i \in DOMAIN f : f[i].name \in columns.columns_numeric}
    IN  IF \E i \in hit : \E j \in DOMAIN f[i].vals : ~to_numeric(f[i].vals[j]).ok
        THEN Failed(f)
        ELSE Done([i \in DOMAIN f |->
                 IF i \in hit
                 THEN Column(f[i].name,
                             [j \in DOMAIN f[i].vals |-> to_numeric(f[i].vals[j]).c])
                 ELSE f[i]])

\* step 4: for col in columns_string: new_col = columns_new_names.get(col, col);
\*         if new_col in df.columns: df[new_col] = df[new_col].astype(str)
string_columns(f, columns) ==
    LET targets == {NewName(columns, col) : col \in columns.columns_string}
    IN  [i \in DOMAIN f |->
            IF f[i].name \in targets
            THEN Column(f[i].name, [j \in DOMAIN f[i].vals |-> astype_str(f[i].vals[j])])
            ELSE f[i]]

\* step 5: df.rename(columns=columns_new_names)
rename_columns(f, columns) ==
    [i \in DOMAIN f |-> Column(NewName(columns, f[i].name), f[i].vals)]

\* the five steps of transform(), in the order of the code; a raising step
\* aborts the rest
Normalize(f, columns) ==
    LET a == drop_columns(f, columns)
        d == date_columns(a, columns)
        n == numeric_columns(d.frame, columns)
    IN  IF ~d.ok THEN Failed(f)
        ELSE IF ~n.ok THEN Failed(f)
        ELSE Done(rename_columns(string_columns(n.frame, columns), columns))

(***************************************************************************)
(* The raw price frame of yf.download(group_by='ticker'): rows indexed by  *)
(* date, columns keyed by (ticker, field).                                 *)
(***************************************************************************)
Fields == {"Open", "High", "Low", "Close", "Volume"}

\* the (date, ticker) positions of a wide frame, date-major as stack() lists them
Pairs(w) ==
    LET m == Len(w.tickers)
    IN  [k \in 1..(Len(w.index) * m) |-> <<((k - 1) \div m) + 1, ((k - 1) % m) + 1>>]

AllFieldsMissing(w, q) == \A fld \in Fields : IsMissing(w.cell[q][fld])

\* the long frame over the kept positions: Date, Ticker and the five fields
LongFrame(w, keep) ==
    <<Column("Date", [k \in DOMAIN keep |-> Date(w.index[keep[k][1]])]),
      Column("Ticker", [k \in DOMAIN keep |-> Str(w.tickers[keep[k][2]])]),
      Column("Open", [k \in DOMAIN keep |-> w.cell[keep[k]]["Open"]]),
      Column("High", [k \in DOMAIN keep |-> w.cell[keep[k]]["High"]]),
      Column("Low", [k \in DOMAIN keep |-> w.cell[keep[k]]["Low"]]),
      Column("Close", [k \in DOMAIN keep |-> w.cell[keep[k]]["Close"]]),
      Column("Volume", [k \in DOMAIN keep |-> w.cell[keep[k]]["Volume"]])>>

\* a reshape that drops every row with a missing field (dropna(how="any"))
reshape_dropna_any(w) ==
    LongFrame(w, SelectSeq(Pairs(w),
                           LAMBDA q : \A fld \in Fields : ~IsMissing(w.cell[q][fld])))

\* df.stack(level=0, future_stack=True).reset_index(), the seven columns, then
\* dropna(how="all", subset=the five fields)
reshape(w) ==
    LongFrame(w, SelectSeq(Pairs(w), LAMBDA q : ~AllFieldsMissing(w, q)))

\* MetadataETL.transform, the part inside try
metadata_transform(raw, columns) == Normalize(raw, columns)

\* BenchmarkETL.transform, the part inside try
benchmark_transform(raw, columns) ==
    LET r == Normalize(reshape(raw), columns)
    IN  IF r.ok THEN r ELSE Failed(raw)

NoFrames == [t \in {} |-> <<>>]

\* the record of a call of a pipeline method; connections counts the database
\* connections the call opened and had not closed when it ended
Call(p, op, outcome) ==
    [op |-> op, p |-> p, outcome |-> outcome, dataframes |-> NoFrames,
     drop_all_tables |-> FALSE, append_data |-> FALSE, connections |-> 0]

\* con = engine.connect(), with no con.close() and no engine.dispose() after it
LeftOpen(call) == [call EXCEPT !.connections = 1]

(***************************************************************************)
(* transform() of either pipeline object                                   *)
(***************************************************************************)
\* if self.df_raw is None
NothingToTransform(p) == ~df_raw[p].some

\* a transform that uses up the raw frame it works on
RawKept_consumed(p) == [df_raw EXCEPT ![p] = None]

\* df = self.df_raw.copy(): the steps work on a copy, self.df_raw is not
\* assigned
RawKept(p) == df_raw

transform(p) ==
    /\ df_raw' = RawKept(p)
    /\ IF NothingToTransform(p)
       THEN /\ last' = Call(p, "transform", "No data to transform.")
            /\ hist' = [hist EXCEPT ![p].raised = TRUE]
            /\ UNCHANGED df_transformed
       ELSE LET r == IF p = "metadata"
                     THEN metadata_transform(df_raw[p].frame, cfg[p].columns)
                     ELSE benchmark_transform(df_raw[p].frame, cfg[p].columns)
            IN  IF r.ok
                THEN /\ df_transformed' = [df_transformed EXCEPT ![p] = Some(r.frame)]
                     /\ hist' = [hist EXCEPT ![p].transform = TRUE]
                     /\ last' = Call(p, "transform", "ok")
                ELSE /\ last' = Call(p, "transform", "transform error")
                     /\ hist' = [hist EXCEPT ![p].raised = TRUE]
                     /\ UNCHANGED df_transformed
    /\ UNCHANGED <<cfg, nhist, csv, remote, requests, db, xlsx, sink, df, run>>

\* how many times in a row the numeric step is applied
MaxPasses == 2

\* the numeric step of the normaliser applied to the frame the previous
\* application produced (the extracted frame the first time)
coerce_numeric ==
    /\ df_raw["metadata"].some
    /\ Len(nhist) < MaxPasses
    /\ IF nhist = <<>> THEN TRUE ELSE nhist[Len(nhist)].ok
    /\ nhist' = Append(nhist,
                       numeric_columns(IF nhist = <<>>
                                       THEN df_raw["metadata"].frame
                                       ELSE nhist[Len(nhist)].frame,
                                       cfg["metadata"].columns))
    /\ UNCHANGED <<cfg, df_raw, df_transformed, hist, last, csv, remote, requests, db,
                   xlsx, sink, df, run>>

(***************************************************************************)
(* Names and values the configuration and the sinks range over             *)
(***************************************************************************)
TableNames == {"metadata", "benchmark", "old"}

NoTable == [exists |-> FALSE, rows |-> <<>>]
Table(rows) == [exists |-> TRUE, rows |-> rows]

NoColumns ==
    [columns_to_drop |-> {}, columns_date |-> {}, columns_numeric |-> {},
     columns_string |-> {}, columns_new_names |-> [n \in {} |-> "z"]]

\* the fields of the BenchmarkConfig object that get_config constructs
BenchmarkConfigFields == {"name", "tickers_info", "columns", "logger"}

\* the Config that get_config builds, with the given column groups for the two
\* datasets
ConfigOf(meta_columns, bench_columns, to_excel, to_sqlite) ==
    [metadata |-> [columns |-> meta_columns],
     benchmark |-> [columns |-> bench_columns, tickers_info_column |-> "ticker",
                    attributes |-> BenchmarkConfigFields],
     main_parameters |-> [to_excel |-> to_excel, to_sqlite |-> to_sqlite],
     streamlit |-> [portfolio |-> [max_nb_tickers |-> 3]],
     benchmark_sheet |-> "benchmark",
     metadata_sheet |-> "metadata"]

NoWide == [index |-> <<>>, tickers |-> <<>>, cell |-> <<>>]
NoCall == Call("none", "none", "none")
NoRun ==
    [step |-> "none", start_date |-> 0, end_date |-> 0, tickers_in_period |-> {},
     tickers |-> {}, pressed |-> FALSE, filtered |-> {}, df_pivot |-> {},
     df_bench_pivot |-> {}, common_dates |-> {}, portfolio_prices |-> <<>>,
     benchmark_prices |-> <<>>, messages |-> <<>>, indicator_calls |-> <<>>]
EmptyStore == [t \in TableNames |-> NoTable]
NoArtifact == [exists |-> FALSE, sheets |-> [t \in TableNames |-> NoTable]]

(***************************************************************************)
(* helpers_export: the tabular artifact and the relational store           *)
(***************************************************************************)
Existing(tables) == {t \in TableNames : tables[t].exists}

\* an export that always opens the artifact for writing (mode="w")
ExcelWritten_overwrite(artifact, dataframes) ==
    [exists |-> TRUE,
     sheets |-> [t \in TableNames |->
                    IF t \in DOMAIN dataframes THEN Table(<<dataframes[t]>>) ELSE NoTable]]

\* the artifact after dataframes_to_excel: mode "a" with if_sheet_exists=
\* "replace" when the file exists, mode "w" when it does not
ExcelWritten(artifact, dataframes) ==
    [exists |-> TRUE,
     sheets |-> [t \in TableNames |->
                    IF t \in DOMAIN dataframes THEN Table(<<dataframes[t]>>)
                    ELSE IF artifact.exists THEN artifact.sheets[t]
                    ELSE NoTable]]

\* a catalogue into which the tables of the store have been reflected
MetaData_reflected == TableNames

\* meta = MetaData(): a new catalogue, into which no table has been reflected
MetaData == {}

\* meta.drop_all(con): drops the tables the catalogue holds
drop_all(store, meta) ==
    [t \in TableNames |-> IF t \in meta THEN NoTable ELSE store[t]]

\* a to_sql that adds the rows to those the table holds
to_sql_adding(table, frame, if_exists) ==
    IF table.exists THEN Table(Append(table.rows, frame)) ELSE Table(<<frame>>)

\* df.to_sql(name, con, if_exists, index=False)
to_sql(table, frame, if_exists) ==
    IF table.exists /\ if_exists = "append"
    THEN Table(Append(table.rows, frame))
    ELSE Table(<<frame>>)

\* the store after dataframes_to_db
StoreWritten(store, dataframes, drop_all_tables, append_data) ==
    LET dropped == IF drop_all_tables THEN drop_all(store, MetaData) ELSE store
        if_exists == IF append_data THEN "append" ELSE "replace"
    IN  [t \in TableNames |->
            IF t \in DOMAIN dataframes
            THEN to_sql(dropped[t], dataframes[t], if_exists)
            ELSE dropped[t]]

\* the record of a call of an export helper
HelperCall(op, dataframes, drop_all_tables, append_data) ==
    [op |-> op, p |-> "none", outcome |-> "ok", dataframes |-> dataframes,
     drop_all_tables |-> drop_all_tables, append_data |-> append_data,
     connections |-> 0]

\* batches of rows a table may hold
MaxBatches == 2

\* frames handed to the export helpers
ExportFrames == {<<Column("a", <<Num("7")>>)>>, <<Column("a", <<Str("x")>>)>>}

\* dictionaries name -> frame: every one with one key, and the two-key ones
\* that give their keys different frames
ExportDicts ==
    UNION {{d \in [keys -> ExportFrames] :
               \A t, u \in keys : t # u => d[t] # d[u]} :
              keys \in {ks \in SUBSET TableNames : Cardinality(ks) \in {1, 2}}}

dataframes_to_excel(dataframes) ==
    /\ xlsx' = ExcelWritten(xlsx, dataframes)
    /\ last' = HelperCall("dataframes_to_excel", dataframes, FALSE, FALSE)
    /\ UNCHANGED <<cfg, df_raw, df_transformed, hist, nhist, csv, remote, requests, db,
                   sink, df, run>>

dataframes_to_db(dataframes, drop_all_tables, append_data) ==
    /\ append_data => \A t \in DOMAIN dataframes : Len(db[t].rows) < MaxBatches
    /\ db' = StoreWritten(db, dataframes, drop_all_tables, append_data)
    /\ last' = LeftOpen(HelperCall("dataframes_to_db", dataframes, drop_all_tables,
                                   append_data))
    /\ UNCHANGED <<cfg, df_raw, df_transformed, hist, nhist, csv, remote, requests, xlsx,
                   sink, df, run>>

InitStore ==
    /\ cfg = ConfigOf(NoColumns, NoColumns, TRUE, TRUE)
    /\ df_raw = [p \in Pipelines |-> None]
    /\ df_transformed = [p \in Pipelines |-> None]
    /\ hist = [p \in Pipelines |-> [extract |-> FALSE, transform |-> FALSE, raised |-> FALSE]]
    /\ last = NoCall
    /\ nhist = <<>>
    /\ csv = [readable |-> FALSE, frame |-> <<>>]
    /\ remote = [up |-> FALSE, frame |-> NoWide]
    /\ requests = <<>>
    /\ db = EmptyStore
    /\ xlsx = NoArtifact
    /\ sink = [excel |-> TRUE, db |-> TRUE]
    /\ df = {}
    /\ run = NoRun

NextDb ==
    \E d \in ExportDicts, drop_all_tables \in BOOLEAN, append_data \in BOOLEAN :
        dataframes_to_db(d, drop_all_tables, append_data)

SpecDb == InitStore /\ [][NextDb]_vars

\* every dictionary name -> frame with at least one key
ExcelDicts ==
    UNION {[keys -> ExportFrames \cup {<<Column("b", <<NaN>>)>>}] :
              keys \in (SUBSET TableNames) \ {{}}}

NextExcel == \E d \in ExcelDicts : dataframes_to_excel(d)

SpecExcel == InitStore /\ [][NextExcel]_vars

(***************************************************************************)
(* extract() and load() of the two pipeline objects                        *)
(***************************************************************************)
\* s without the repetitions of its elements, in order of first appearance
Unique(s) ==
    LET first == SelectSeq([i \in DOMAIN s |-> i],
                           LAMBDA i : \A j \in 1..(i - 1) : s[j] # s[i])
    IN  [k \in DOMAIN first |-> s[first[k]]]

ColumnNamed(f, n) == f[CHOOSE i \in DOMAIN f : f[i].name = n]

\* the tickers of the column as they come, repeated ones included
TickerList_repeating(f, ticker_col) ==
    LET present == SelectSeq(ColumnNamed(f, ticker_col).vals, LAMBDA c : ~IsMissing(c))
    IN  [i \in DOMAIN present |-> present[i].v]

\* df_metadata[ticker_col].dropna().unique().tolist()
TickerList(f, ticker_col) ==
    LET present == SelectSeq(ColumnNamed(f, ticker_col).vals, LAMBDA c : ~IsMissing(c))
    IN  Unique([i \in DOMAIN present |-> present[i].v])

MissingRow == [fld \in Fields |-> NaN]

\* yf.download(tickers, period="max", group_by='ticker'): the whole history of
\* the requested tickers, a ticker the source does not know being all missing
download(quotes, tickers) ==
    [index |-> quotes.index,
     tickers |-> tickers,
     cell |-> [q \in (DOMAIN quotes.index) \X (DOMAIN tickers) |->
                 IF \E j \in DOMAIN quotes.tickers : quotes.tickers[j] = tickers[q[2]]
                 THEN quotes.cell[<<q[1], CHOOSE j \in DOMAIN quotes.tickers :
                                             quotes.tickers[j] = tickers[q[2]]>>]
                 ELSE MissingRow]]

\* a call of extract() that records the request it issued
ExtractCall(p, outcome, sent) ==
    /\ last' = Call(p, "extract", outcome)
    /\ requests' = sent
    /\ hist' = IF outcome = "ok" THEN [hist EXCEPT ![p].extract = TRUE]
               ELSE [hist EXCEPT ![p].raised = TRUE]

\* a column test placed after the download
MissingColumn_after_download(p) ==
    /\ ExtractCall(p, "Ticker column missing", <<<<>>>>)
    /\ UNCHANGED df_raw

\* if ticker_col not in df_metadata.columns: raise ValueError("Ticker column
\* missing")
MissingColumn(p) ==
    /\ ExtractCall(p, "Ticker column missing", <<>>)
    /\ UNCHANGED df_raw

extract(p) ==
    /\ IF ~csv.readable
       THEN \* pd.read_csv raises: logged and re-raised
            /\ ExtractCall(p, "io error", <<>>)
            /\ UNCHANGED df_raw
       ELSE IF p = "metadata"
       THEN /\ df_raw' = [df_raw EXCEPT ![p] = Some(csv.frame)]
            /\ ExtractCall(p, "ok", <<>>)
       ELSE IF ~HasCol(csv.frame, cfg[p].tickers_info_column)
       THEN MissingColumn(p)
       ELSE IF ~remote.up
       THEN \* yf.download raises: logged and re-raised
            /\ ExtractCall(p, "io error",
                           <<TickerList(csv.frame, cfg[p].tickers_info_column)>>)
            /\ UNCHANGED df_raw
       ELSE /\ df_raw' = [df_raw EXCEPT ![p] =
                   Some(download(remote.frame,
                                 TickerList(csv.frame, cfg[p].tickers_info_column)))]
            /\ ExtractCall(p, "ok",
                           <<TickerList(csv.frame, cfg[p].tickers_info_column)>>)
    /\ UNCHANGED <<cfg, df_transformed, nhist, csv, remote, db, xlsx, sink, df, run>>

\* export = {sheet: self.df_transformed}
ExportOf(p) ==
    [t \in {IF p = "metadata" THEN cfg.metadata_sheet ELSE cfg.benchmark_sheet} |->
        df_transformed[p].frame]

\* a guard that lets load() through whatever the object holds
NothingToLoad_unchecked(p) == FALSE

\* if self.df_transformed is None
NothingToLoad(p) == ~df_transformed[p].some

\* the call raises
Raises(p) == hist' = [hist EXCEPT ![p].raised = TRUE]

load(p) ==
    /\ IF NothingToLoad(p)
       THEN /\ last' = Call(p, "load", "No data to load.")
            /\ Raises(p)
            /\ UNCHANGED <<db, xlsx>>
       ELSE IF cfg.main_parameters.to_excel /\ ~sink.excel
       THEN \* the Excel export raises: nothing is written
            /\ last' = Call(p, "load", "io error")
            /\ Raises(p)
            /\ UNCHANGED <<db, xlsx>>
       ELSE /\ xlsx' = IF cfg.main_parameters.to_excel
                       THEN ExcelWritten(xlsx, ExportOf(p))
                       ELSE xlsx
            /\ IF cfg.main_parameters.to_sqlite /\ ~sink.db
               THEN \* a to_sql of the SQLite export raises, after the Excel
                    \* export was done
                    /\ last' = LeftOpen(Call(p, "load", "io error"))
                    /\ Raises(p)
                    /\ UNCHANGED db
               ELSE /\ db' = IF cfg.main_parameters.to_sqlite
                             THEN StoreWritten(db, ExportOf(p), TRUE, FALSE)
                             ELSE db
                    /\ last' = IF cfg.main_parameters.to_sqlite
                               THEN LeftOpen(Call(p, "load", "ok"))
                               ELSE Call(p, "load", "ok")
                    /\ UNCHANGED hist
    /\ UNCHANGED <<cfg, df_raw, df_transformed, nhist, csv, remote, requests,
                   sink, df, run>>

(***************************************************************************)
(* The surroundings of a pipeline run: the flat file, the price source,    *)
(* the sinks                                                               *)
(***************************************************************************)
MetadataColumns ==
    [columns_to_drop |-> {"note"}, columns_date |-> {"listed"}, columns_numeric |-> {},
     columns_string |-> {"ticker"}, columns_new_names |-> [n \in {"listed"} |-> "listing_date"]]

BenchmarkColumns ==
    [columns_to_drop |-> {}, columns_date |-> {"Date"}, columns_numeric |-> Fields,
     columns_string |-> {"Ticker"},
     columns_new_names |->
         [Date |-> "date", Ticker |-> "ticker", Open |-> "open", High |-> "high",
          Low |-> "low", Close |-> "close", Volume |-> "volume"]]

CsvFiles ==
    {<<Column("ticker", <<Str("A"), Str("B"), NaN, Str("A")>>),
       Column("listed", <<Str("2020-01-02"), NaN, NaN, NaN>>)>>,
     <<Column("ticker", <<Str("A"), Str("B")>>),
       Column("listed", <<Str("x"), NaN>>)>>,
     <<Column("listed", <<Str("2020-01-02")>>)>>}

CsvStates ==
    {[readable |-> FALSE, frame |-> <<>>]} \cup {[readable |-> TRUE, frame |-> f] : f \in CsvFiles}

FullRow == [fld \in Fields |-> Num("7")]
NoCloseRow == [fld \in Fields |-> IF fld = "Close" THEN NaN ELSE Num("7")]
OnlyVolumeRow == [fld \in Fields |-> IF fld = "Volume" THEN Num("0") ELSE NaN]
RowPatterns == {MissingRow, FullRow, NoCloseRow, OnlyVolumeRow}

DateNames == <<"2020-01-02", "2020-01-03", "2020-01-06", "2020-01-07">>

\* the history the price source serves: A from the first day, B listed later
Quotes ==
    [index |-> <<DateNames[1], DateNames[2]>>,
     tickers |-> <<"A", "B">>,
     cell |-> [q \in (1..2) \X (1..2) |->
                 IF q = <<1, 2>> THEN MissingRow
                 ELSE IF q = <<2, 2>> THEN NoCloseRow
                 ELSE FullRow]]

RemoteStates == {[up |-> b, frame |-> Quotes] : b \in BOOLEAN}

SinkStates == [excel : BOOLEAN, db : BOOLEAN]

metadata_file_changes ==
    /\ csv' \in CsvStates \ {csv}
    /\ UNCHANGED <<cfg, df_raw, df_transformed, hist, last, nhist, remote, requests, db,
                   xlsx, sink, df, run>>

remote_changes ==
    /\ remote' \in RemoteStates \ {remote}
    /\ UNCHANGED <<cfg, df_raw, df_transformed, hist, last, nhist, csv, requests, db,
                   xlsx, sink, df, run>>

sink_changes ==
    /\ sink' \in SinkStates \ {sink}
    /\ UNCHANGED <<cfg, df_raw, df_transformed, hist, last, nhist, csv, remote, requests,
                   db, xlsx, df, run>>

InitEtl ==
    /\ cfg = ConfigOf(MetadataColumns, BenchmarkColumns, TRUE, TRUE)
    /\ df_raw = [p \in Pipelines |-> None]
    /\ df_transformed = [p \in Pipelines |-> None]
    /\ hist = [p \in Pipelines |-> [extract |-> FALSE, transform |-> FALSE, raised |-> FALSE]]
    /\ last = NoCall
    /\ nhist = <<>>
    /\ csv \in CsvStates
    /\ remote \in RemoteStates
    /\ requests = <<>>
    /\ db = EmptyStore
    /\ xlsx = NoArtifact
    /\ sink \in SinkStates
    /\ df = {}
    /\ run = NoRun

NextEtl ==
    \/ \E p \in Pipelines : extract(p)
    \/ \E p \in Pipelines : transform(p)
    \/ \E p \in Pipelines : load(p)
    \/ metadata_file_changes
    \/ remote_changes
    \/ sink_changes

SpecEtl == InitEtl /\ [][NextEtl]_vars

(***************************************************************************)
(* The benchmark reshape on every small raw price frame                    *)
(***************************************************************************)
\* trading dates of the raw price frames
NumDates == 2

WideTickers == <<"A", "B">>

WideFrames ==
    {[index |-> [i \in 1..NumDates |-> DateNames[i]], tickers |-> WideTickers, cell |-> c] :
        c \in [(1..NumDates) \X (DOMAIN WideTickers) -> RowPatterns]}

InitReshape ==
    /\ cfg \in {ConfigOf(NoColumns, c, FALSE, FALSE) : c \in {NoColumns, BenchmarkColumns}}
    /\ df_raw \in {[metadata |-> None, benchmark |-> Some(w)] : w \in WideFrames}
    /\ df_transformed = [p \in Pipelines |-> None]
    /\ hist = [metadata |-> [extract |-> FALSE, transform |-> FALSE, raised |-> FALSE],
               benchmark |-> [extract |-> TRUE, transform |-> FALSE, raised |-> FALSE]]
    /\ last = NoCall
    /\ nhist = <<>>
    /\ csv = [readable |-> FALSE, frame |-> <<>>]
    /\ remote = [up |-> FALSE, frame |-> NoWide]
    /\ requests = <<>>
    /\ db = EmptyStore
    /\ xlsx = NoArtifact
    /\ sink = [excel |-> TRUE, db |-> TRUE]
    /\ df = {}
    /\ run = NoRun

NextReshape == transform("benchmark")

SpecReshape == InitReshape /\ [][NextReshape]_vars

(***************************************************************************)
(* The normaliser on every small frame and column-group spec               *)
(***************************************************************************)
\* rows of the frames the normaliser is run on
MaxRows == 1

ColNames == {"a", "b"}
InputCells == {NaN, Num("7"), Str("7"), Str("x"), Str("2020-01-02")}

\* a column as read_csv types it: numbers or text, not both
ColumnValues(n) ==
    {vs \in [1..n -> InputCells] :
        ~(\E i \in 1..n : vs[i].k = "num") \/ ~(\E i \in 1..n : vs[i].k = "str")}

InputFrames ==
    UNION {    {<<Column("a", va)>> : va \in ColumnValues(n)}
          \cup {<<Column("b", vb)>> : vb \in ColumnValues(n)}
          \cup {<<Column("a", va), Column("b", vb)>> :
                    va \in ColumnValues(n), vb \in ColumnValues(n)}
          : n \in 1..MaxRows}

RenameMaps ==
    {[n \in {} |-> "z"]} \cup {[n \in {"a"} |-> t] : t \in {"b", "z"}}

ColumnGroupSpecs ==
    [columns_to_drop : SUBSET ColNames, columns_date : SUBSET ColNames,
     columns_numeric : SUBSET ColNames, columns_string : SUBSET ColNames,
     columns_new_names : RenameMaps]

\* a digit string under a date tag is left out: what the date parser makes of
\* it depends on the pandas version
DateInputsKnown(f, columns) ==
    \A i \in DOMAIN f : f[i].name \in columns.columns_date =>
        \A j \in DOMAIN f[i].vals :
            ~(f[i].vals[j].k = "str" /\ f[i].vals[j].v \in NumericStrings)

InitNorm ==
    /\ cfg \in {ConfigOf(c, NoColumns, FALSE, FALSE) : c \in ColumnGroupSpecs}
    /\ df_raw \in {[metadata |-> Some(f), benchmark |-> None] : f \in InputFrames}
    /\ DateInputsKnown(df_raw["metadata"].frame, cfg["metadata"].columns)
    /\ df_transformed = [p \in Pipelines |-> None]
    /\ hist = [metadata |-> [extract |-> TRUE, transform |-> FALSE, raised |-> FALSE],
               benchmark |-> [extract |-> FALSE, transform |-> FALSE, raised |-> FALSE]]
    /\ last = NoCall
    /\ nhist = <<>>
    /\ csv = [readable |-> FALSE, frame |-> <<>>]
    /\ remote = [up |-> FALSE, frame |-> NoWide]
    /\ requests = <<>>
    /\ db = EmptyStore
    /\ xlsx = NoArtifact
    /\ sink = [excel |-> TRUE, db |-> TRUE]
    /\ df = {}
    /\ run = NoRun

NextNorm == transform("metadata") \/ coerce_numeric

SpecNorm == InitNorm /\ [][NextNorm]_vars

(***************************************************************************)
(* Data: the price table and the metadata table read from the store and    *)
(* merged                                                                  *)
(***************************************************************************)
PriceRecord(d, t) == [date |-> d, ticker |-> t, close |-> Num("7")]
MetaRecord(t, sector) == [ticker |-> t, sector |-> sector]
MergedRecord(price, sector) ==
    [date |-> price.date, ticker |-> price.ticker, close |-> price.close,
     sector |-> sector]

RECURSIVE Flatten(_)
Flatten(ss) == IF ss = <<>> THEN <<>> ELSE Head(ss) \o Flatten(Tail(ss))

\* a merge that keeps only the price rows that have a metadata row
merge_inner(df_price, df_meta) ==
    Flatten([i \in DOMAIN df_price |->
        LET matches == SelectSeq(df_meta, LAMBDA m : m.ticker = df_price[i].ticker)
        IN  [k \in DOMAIN matches |-> MergedRecord(df_price[i], matches[k].sector)]])

\* self.df_price.merge(self.df_meta, on="ticker", how="left")
merge_left(df_price, df_meta) ==
    Flatten([i \in DOMAIN df_price |->
        LET matches == SelectSeq(df_meta, LAMBDA m : m.ticker = df_price[i].ticker)
        IN  IF matches = <<>>
            THEN <<MergedRecord(df_price[i], NaN)>>
            ELSE [k \in DOMAIN matches |-> MergedRecord(df_price[i], matches[k].sector)]])

NotLoaded == [loaded |-> FALSE, rows |-> <<>>]

\* Data.load_df_from_db, called once by Data.__init__.  When a table cannot be
\* read the engine is not disposed, and whether a connection stays open in
\* its pool depends on the pool the installed SQLAlchemy gives a SQLite file.
load_df_from_db ==
    /\ df = NotLoaded
    /\ last.op = "none"
    /\ IF db["benchmark"].exists /\ db["metadata"].exists
       THEN /\ df' = [loaded |-> TRUE,
                      rows |-> merge_left(db["benchmark"].rows, db["metadata"].rows)]
            /\ last' = Call("none", "load_df_from_db", "ok")
       ELSE /\ last' \in {Call("none", "load_df_from_db", "error"),
                          LeftOpen(Call("none", "load_df_from_db", "error"))}
            /\ UNCHANGED df
    /\ UNCHANGED <<cfg, df_raw, df_transformed, hist, nhist, csv, remote, requests, db,
                   xlsx, sink, run>>

\* rows of a table
MaxTableRows == 2

DataTickers == {"A", "B"}

SeqsUpTo(S, n) == UNION {[1..k -> S] : k \in 0..n}

PriceTables ==
    {NoTable} \cup {Table(rows) :
                      rows \in SeqsUpTo({PriceRecord("2020-01-02", t) : t \in DataTickers},
                                        MaxTableRows)}

MetaTables ==
    {NoTable} \cup {Table(rows) :
                      rows \in SeqsUpTo({MetaRecord(t, sector) :
                                            t \in DataTickers, sector \in {Str("tech"), NaN}},
                                        MaxTableRows)}

InitData ==
    /\ cfg = ConfigOf(NoColumns, NoColumns, FALSE, FALSE)
    /\ df_raw = [p \in Pipelines |-> None]
    /\ df_transformed = [p \in Pipelines |-> None]
    /\ hist = [p \in Pipelines |-> [extract |-> FALSE, transform |-> FALSE, raised |-> FALSE]]
    /\ last = NoCall
    /\ nhist = <<>>
    /\ csv = [readable |-> FALSE, frame |-> <<>>]
    /\ remote = [up |-> FALSE, frame |-> NoWide]
    /\ requests = <<>>
    /\ \E price \in PriceTables, meta \in MetaTables :
          db = [t \in TableNames |-> IF t = "benchmark" THEN price
                                     ELSE IF t = "metadata" THEN meta
                                     ELSE NoTable]
    /\ xlsx = NoArtifact
    /\ sink = [excel |-> TRUE, db |-> TRUE]
    /\ df = NotLoaded
    /\ run = NoRun

NextData == load_df_from_db

SpecData == InitData /\ [][NextData]_vars

(***************************************************************************)
(* PortfolioDashboard: one run of display() on the merged frame.  A row of *)
(* the merged frame is a date (a day number), a ticker and a closing       *)
(* price; prices are counted in sixths so that the mean over one, two or   *)
(* three instruments is a whole number.                                    *)
(***************************************************************************)
NoPrice == [nan |-> TRUE, px |-> 0]
Price(x) == [nan |-> FALSE, px |-> x]
Row(d, t, c) == [date |-> d, ticker |-> t, close |-> c]

RECURSIVE SumOf(_, _)
SumOf(S, val) ==
    IF S = {} THEN 0
    ELSE LET x == CHOOSE y \in S : TRUE IN val[x] + SumOf(S \ {x}, val)

\* the elements of a set of day numbers, ascending (sort_index)
Ascending(S) ==
    LET RECURSIVE Asc(_)
        Asc(T) == IF T = {} THEN <<>>
                  ELSE LET m == CHOOSE x \in T : \A y \in T : x <= y
                       IN  <<m>> \o Asc(T \ {m})
    IN  Asc(S)

\* self.df[(date >= start) & (date <= end)]
InPeriod(rows, start_date, end_date) ==
    {r \in rows : r.date >= start_date /\ r.date <= end_date}

\* a period that leaves its two end dates out
get_tickers_in_period_exclusive(rows, start_date, end_date) ==
    {r.ticker : r \in {q \in rows : q.date > start_date /\ q.date < end_date}}

\* PortfolioDashboard.get_tickers_in_period
get_tickers_in_period(rows, start_date, end_date) ==
    {r.ticker : r \in InPeriod(rows, start_date, end_date)}

\* rows.pivot(index='date', columns='ticker', values='close'), then
\* dropna(how='any', axis=0): the dates on which every ticker of the pivot has
\* a row with a price
\* a pivot that only drops the dates on which no ticker has a price
pivot_dropna_all(rows) ==
    {d \in {r.date : r \in rows} : \E r \in rows : r.date = d /\ ~r.close.nan}

pivot_dropna(rows) ==
    {d \in {r.date : r \in rows} :
        \A t \in {r.ticker : r \in rows} :
            \E r \in rows : r.date = d /\ r.ticker = t /\ ~r.close.nan}

\* an alignment that keeps the dates of either side
common_dates_union(sel_dates, bench_dates) == sel_dates \cup bench_dates

\* df_pivot.index.intersection(df_bench_pivot.index)
common_dates_of(sel_dates, bench_dates) == sel_dates \cap bench_dates

\* per date the sum of the closes, where the mean is wanted
mean_prices_sum(rows, dates) ==
    LET cols == {r.ticker : r \in rows}
        priced(d) == {t \in cols :
                        \E r \in rows : r.date = d /\ r.ticker = t /\ ~r.close.nan}
        close(d) == [t \in priced(d) |->
                        (CHOOSE r \in rows : r.date = d /\ r.ticker = t).close.px]
        days == Ascending({d \in dates : priced(d) # {}})
    IN  [k \in DOMAIN days |-> SumOf(priced(days[k]), close(days[k]))]

\* pivot.loc[dates].mean(axis=1).dropna(): per date the mean of the closes that
\* are present among the pivot's tickers, a date without any being dropped;
\* ascending by date
mean_prices(rows, dates) ==
    LET cols == {r.ticker : r \in rows}
        priced(d) == {t \in cols :
                        \E r \in rows : r.date = d /\ r.ticker = t /\ ~r.close.nan}
        close(d) == [t \in priced(d) |->
                        (CHOOSE r \in rows : r.date = d /\ r.ticker = t).close.px]
        days == Ascending({d \in dates : priced(d) # {}})
    IN  [k \in DOMAIN days |->
            SumOf(priced(days[k]), close(days[k])) \div Cardinality(priced(days[k]))]

Msg(level, text) == [level |-> level, text |-> text]

\* PortfolioDashboard.prepare_data
prepare_data(rows, start_date, end_date, tickers) ==
    LET df_result == {r \in InPeriod(rows, start_date, end_date) : r.ticker \in tickers}
        df_pivot == pivot_dropna(df_result)
        benchmark_tickers == {r.ticker : r \in rows}
        df_benchmark == {r \in InPeriod(rows, start_date, end_date) :
                            r.ticker \in benchmark_tickers}
        df_bench_pivot == pivot_dropna(df_benchmark)
        common_dates == common_dates_of(df_pivot, df_bench_pivot)
        portfolio_prices == mean_prices(df_result, common_dates)
        benchmark_prices == mean_prices(df_benchmark, common_dates)
        nothing == [returned |-> FALSE, raised |-> FALSE, filtered |-> df_result,
                    df_pivot |-> df_pivot, df_bench_pivot |-> {}, common_dates |-> {},
                    portfolio_prices |-> <<>>, benchmark_prices |-> <<>>]
    IN  IF df_result = {}
        THEN [nothing EXCEPT !.df_pivot = {}] @@
             [messages |-> <<Msg("warning", "No data available for this period and these stocks.")>>]
        ELSE IF df_pivot = {}
        THEN nothing @@
             [messages |-> <<Msg("success", "Analysis in progress !"),
                             Msg("warning", "No common trading date for all selected stocks.")>>]
        ELSE IF portfolio_prices = <<>>
        THEN \* the st.info line formats portfolio_prices.index.min().date(): the
             \* minimum of an empty index is NaT, and NaT.date() raises
             [returned |-> FALSE, raised |-> TRUE, filtered |-> df_result,
              df_pivot |-> df_pivot, df_bench_pivot |-> df_bench_pivot,
              common_dates |-> common_dates, portfolio_prices |-> portfolio_prices,
              benchmark_prices |-> benchmark_prices,
              messages |-> <<Msg("success", "Analysis in progress !")>>]
        ELSE [returned |-> TRUE, raised |-> FALSE, filtered |-> df_result,
              df_pivot |-> df_pivot, df_bench_pivot |-> df_bench_pivot,
              common_dates |-> common_dates, portfolio_prices |-> portfolio_prices,
              benchmark_prices |-> benchmark_prices,
              messages |-> <<Msg("success", "Analysis in progress !"),
                             Msg("info", "trading days used for calculations")>>]

\* a float as the quotient num / den of two whole numbers, den > 0; NaN has
\* den = 0
Quot(n, d) == [num |-> n, den |-> d]
NotANumberValue == Quot(0, 0)
IsNaNValue(x) == x.den = 0
Leq(x, y) == x.num * y.den <= y.num * x.den
Same(x, y) == x.num * y.den = y.num * x.den

\* close.iloc[-1] / close.iloc[0] - 1, on a non-empty series
compute_cumulative_return(close) ==
    Quot(close[Len(close)] - close[1], close[1])

\* close.pct_change().dropna()
compute_daily_returns(close) ==
    [i \in 1..(Len(close) - 1) |-> Quot(close[i + 1] - close[i], close[i])]

\* how compute_sharpe ends: returns.std(ddof=1) is NaN below two returns, and
\* NaN == 0 is false; it is zero when the returns are all the same
compute_sharpe(returns) ==
    IF Len(returns) < 2 THEN "nan"
    ELSE IF \A i, j \in DOMAIN returns : Same(returns[i], returns[j])
    THEN "Volatility is zero"
    ELSE "ok"

\* close.cummax()
cummax(close) ==
    [i \in DOMAIN close |->
        CHOOSE m \in {close[j] : j \in 1..i} : \A j \in 1..i : close[j] <= m]

\* a drawdown measured from the lowest price so far
compute_max_drawdown_from_low(close) ==
    LET low == [i \in DOMAIN close |->
                   CHOOSE m \in {close[j] : j \in 1..i} : \A j \in 1..i : m <= close[j]]
        drawdown == [i \in DOMAIN close |-> Quot(close[i] - low[i], low[i])]
    IN  IF close = <<>> THEN NotANumberValue
        ELSE drawdown[CHOOSE i \in DOMAIN close :
                         \A j \in DOMAIN close : Leq(drawdown[j], drawdown[i])]

\* ((close - peak) / peak).min(), NaN on an empty series
compute_max_drawdown(close) ==
    LET peak == cummax(close)
        drawdown == [i \in DOMAIN close |-> Quot(close[i] - peak[i], peak[i])]
    IN  IF close = <<>> THEN NotANumberValue
        ELSE drawdown[CHOOSE i \in DOMAIN close :
                         \A j \in DOMAIN close : Leq(drawdown[i], drawdown[j])]

\* what a call of one of the indicator functions gave
Indicators(fn, end, perf, max_dd) ==
    [fn |-> fn, end |-> end, perf |-> perf, max_dd |-> max_dd]

\* compute_indicators on a price series: how it ends and, when it returns, the
\* cumulative return and the maximum drawdown it reports
compute_indicators(prices) ==
    IF prices = <<>>
    THEN Indicators("compute_indicators", "IndexError", NotANumberValue, NotANumberValue)
    ELSE IF compute_sharpe(compute_daily_returns(prices)) = "Volatility is zero"
    THEN Indicators("compute_indicators", "Volatility is zero", NotANumberValue,
                    NotANumberValue)
    ELSE Indicators("compute_indicators", "ok", compute_cumulative_return(prices),
                    compute_max_drawdown(prices))

\* show_comparisons: the calls of compute_indicators it makes, with their ends
show_comparisons(portfolio_prices, benchmark_prices) ==
    IF compute_indicators(portfolio_prices).end # "ok"
    THEN <<compute_indicators(portfolio_prices)>>
    ELSE <<compute_indicators(portfolio_prices), compute_indicators(benchmark_prices)>>

\* a display() that goes on whatever prepare_data returned
Halted_ignored(prepared) == FALSE

\* if portfolio_prices is None: return
Halted(prepared) == ~prepared.returned

Run(step, start_date, end_date, tip, tickers, pressed, prepared, messages, calls) ==
    [step |-> step, start_date |-> start_date, end_date |-> end_date,
     tickers_in_period |-> tip, tickers |-> tickers, pressed |-> pressed,
     filtered |-> prepared.filtered, df_pivot |-> prepared.df_pivot,
     df_bench_pivot |-> prepared.df_bench_pivot, common_dates |-> prepared.common_dates,
     portfolio_prices |-> prepared.portfolio_prices,
     benchmark_prices |-> prepared.benchmark_prices,
     messages |-> messages, indicator_calls |-> calls]

NotPrepared ==
    [returned |-> FALSE, raised |-> FALSE, filtered |-> {}, df_pivot |-> {}, df_bench_pivot |-> {},
     common_dates |-> {}, portfolio_prices |-> <<>>, benchmark_prices |-> <<>>,
     messages |-> <<>>]

\* st.multiselect(..., max_selections=3)
max_selections == 3

\* a date selection that lets a window of a single day through
select_dates_single_day(start_date, end_date) ==
    IF start_date > end_date THEN <<>> ELSE <<start_date, end_date>>

\* select_dates: (None, None), written <<>>, when start_date >= end_date, the
\* two dates otherwise
select_dates(start_date, end_date) ==
    IF start_date >= end_date THEN <<>> ELSE <<start_date, end_date>>

\* one run of display(): the two dates picked, the tickers picked among the
\* options, whether the button is pressed.  main_streamlit builds a new
\* PortfolioDashboard for every run of the script and calls display() on it
\* once.
display(start_date, end_date, picked, pressed) ==
    /\ run = NoRun
    /\ LET tip == get_tickers_in_period(df, start_date, end_date)
           prepared == prepare_data(df, start_date, end_date, picked)
       IN  IF ~({"name", "components_url"} \subseteq cfg.benchmark.attributes)
           THEN run' = Run("AttributeError", 0, 0, {}, {}, FALSE, NotPrepared, <<>>, <<>>)
           ELSE IF select_dates(start_date, end_date) = <<>>
           THEN run' = Run("select_dates", start_date, end_date, {}, {}, FALSE, NotPrepared,
                           <<Msg("warning", "The end date must be later than the start date.")>>,
                           <<>>)
           ELSE IF tip = {}
           THEN run' = Run("select_tickers", start_date, end_date, tip, {}, FALSE,
                           NotPrepared,
                           <<Msg("warning", "No stocks are traded during this period.")>>,
                           <<>>)
           ELSE /\ picked \subseteq tip
                /\ Cardinality(picked) <= max_selections
                /\ IF picked = {}
                   THEN run' = Run("select_tickers", start_date, end_date, tip, picked,
                                   FALSE, NotPrepared,
                                   <<Msg("info", "Select at least one stock to enable the analysis.")>>,
                                   <<>>)
                   ELSE IF ~pressed
                   THEN run' = Run("button", start_date, end_date, tip, picked, FALSE,
                                   NotPrepared, <<>>, <<>>)
                   ELSE IF prepared.raised
                   THEN run' = Run("ValueError", start_date, end_date, tip, picked, TRUE,
                                   prepared, prepared.messages, <<>>)
                   ELSE IF Halted(prepared)
                   THEN run' = Run("prepare_data", start_date, end_date, tip, picked, TRUE,
                                   prepared, prepared.messages, <<>>)
                   ELSE run' = Run("show_comparisons", start_date, end_date, tip, picked,
                                   TRUE, prepared, prepared.messages,
                                   show_comparisons(prepared.portfolio_prices,
                                                    prepared.benchmark_prices))
    /\ UNCHANGED <<cfg, df_raw, df_transformed, hist, last, nhist, csv, remote, requests,
                   db, xlsx, sink, df>>

\* trading days of the merged frame
NumDays == 2

DashTickers == {"A", "B", "C"}

\* the merged frames: per day and ticker no row, a row without a close, or a
\* row with one; at least one row
MergedFrames ==
    {{Row(q[1], q[2], IF quote[q] = "nan" THEN NoPrice ELSE Price(60)) :
          q \in {r \in (1..NumDays) \X DashTickers : quote[r] # "absent"}} :
        quote \in [(1..NumDays) \X DashTickers -> {"absent", "nan", "price"}]} \ {{}}

\* the Config handed to PortfolioDashboard: the one get_config builds, or one
\* whose benchmark object also carries a components_url
DashConfigs ==
    LET built == ConfigOf(NoColumns, NoColumns, FALSE, FALSE)
    IN  {built,
         [built EXCEPT !.benchmark.attributes = @ \cup {"components_url"}]}

InitDash ==
    /\ cfg \in DashConfigs
    /\ df_raw = [p \in Pipelines |-> None]
    /\ df_transformed = [p \in Pipelines |-> None]
    /\ hist = [p \in Pipelines |-> [extract |-> FALSE, transform |-> FALSE, raised |-> FALSE]]
    /\ last = NoCall
    /\ nhist = <<>>
    /\ csv = [readable |-> FALSE, frame |-> <<>>]
    /\ remote = [up |-> FALSE, frame |-> NoWide]
    /\ requests = <<>>
    /\ db = EmptyStore
    /\ xlsx = NoArtifact
    /\ sink = [excel |-> TRUE, db |-> TRUE]
    /\ df \in MergedFrames
    /\ run = NoRun

\* self.min_date = self.df['date'].min(), self.max_date = self.df['date'].max()
MinDate == CHOOSE d \in {r.date : r \in df} : \A r \in df : d <= r.date
MaxDate == CHOOSE d \in {r.date : r \in df} : \A r \in df : d >= r.date

\* st.date_input(min_value=self.min_date, max_value=self.max_date)
DateInputs == MinDate..MaxDate

NextDash ==
    \E start_date \in DateInputs, end_date \in DateInputs,
       picked \in SUBSET DashTickers, pressed \in BOOLEAN :
        display(start_date, end_date, picked, pressed)

SpecDash == InitDash /\ [][NextDash]_vars

(***************************************************************************)
(* display() under each setting of streamlit.portfolio.max_nb_tickers      *)
(***************************************************************************)
\* the largest max_nb_tickers configured
MaxSetting == 3

SelectConfigs ==
    {[c EXCEPT !.streamlit.portfolio.max_nb_tickers = m] :
        c \in {d \in DashConfigs : "components_url" \in d.benchmark.attributes},
        m \in 1..MaxSetting}

InitSelect ==
    /\ cfg \in SelectConfigs
    /\ df_raw = [p \in Pipelines |-> None]
    /\ df_transformed = [p \in Pipelines |-> None]
    /\ hist = [p \in Pipelines |-> [extract |-> FALSE, transform |-> FALSE, raised |-> FALSE]]
    /\ last = NoCall
    /\ nhist = <<>>
    /\ csv = [readable |-> FALSE, frame |-> <<>>]
    /\ remote = [up |-> FALSE, frame |-> NoWide]
    /\ requests = <<>>
    /\ db = EmptyStore
    /\ xlsx = NoArtifact
    /\ sink = [excel |-> TRUE, db |-> TRUE]
    /\ df \in MergedFrames
    /\ run = NoRun

SpecSelect == InitSelect /\ [][NextDash]_vars

(***************************************************************************)
(* display() on the merged frame of the worked example: A closes at 10, 11 *)
(* and 12 and B at 20, 19 and 21 on three days, C has its one row on some  *)
(* day, the day after them included                                        *)
(***************************************************************************)
ScenarioCloses == [A |-> <<60, 66, 72>>, B |-> <<120, 114, 126>>]

ScenarioDays == DOMAIN ScenarioCloses["A"]

ScenarioFrames ==
    LET quoted == {Row(d, t, Price(ScenarioCloses[t][d])) :
                      d \in ScenarioDays, t \in DOMAIN ScenarioCloses}
    IN  {quoted \cup {Row(d, "C", Price(60))} :
            d \in ScenarioDays \cup {Cardinality(ScenarioDays) + 1}}

InitScenario ==
    /\ cfg \in DashConfigs
    /\ df_raw = [p \in Pipelines |-> None]
    /\ df_transformed = [p \in Pipelines |-> None]
    /\ hist = [p \in Pipelines |-> [extract |-> FALSE, transform |-> FALSE, raised |-> FALSE]]
    /\ last = NoCall
    /\ nhist = <<>>
    /\ csv = [readable |-> FALSE, frame |-> <<>>]
    /\ remote = [up |-> FALSE, frame |-> NoWide]
    /\ requests = <<>>
    /\ db = EmptyStore
    /\ xlsx = NoArtifact
    /\ sink = [excel |-> TRUE, db |-> TRUE]
    /\ df \in ScenarioFrames
    /\ run = NoRun

SpecScenario == InitScenario /\ [][NextDash]_vars

(***************************************************************************)
(* The indicator functions of helpers_streamlit called on price series     *)
(***************************************************************************)
\* points of a price series
MaxPoints == 4

\* closing prices, in sixths
PriceLevels == {60, 66, 72}

PriceSeries == UNION {[1..n -> PriceLevels] : n \in 0..MaxPoints}

Called(fn, prices, result) ==
    [NoRun EXCEPT !.step = fn, !.portfolio_prices = prices,
                  !.indicator_calls = <<result>>]

\* compute_sharpe(compute_daily_returns(close), risk_free_rate, trading_days)
call_compute_sharpe(close) ==
    /\ run = NoRun
    /\ run' = Called("call:compute_sharpe", close,
                     Indicators("compute_sharpe",
                                compute_sharpe(compute_daily_returns(close)),
                                NotANumberValue, NotANumberValue))
    /\ UNCHANGED <<cfg, df_raw, df_transformed, hist, last, nhist, csv, remote, requests,
                   db, xlsx, sink, df>>

\* compute_max_drawdown(close)
call_compute_max_drawdown(close) ==
    /\ run = NoRun
    /\ run' = Called("call:compute_max_drawdown", close,
                     Indicators("compute_max_drawdown", "ok", NotANumberValue,
                                compute_max_drawdown(close)))
    /\ UNCHANGED <<cfg, df_raw, df_transformed, hist, last, nhist, csv, remote, requests,
                   db, xlsx, sink, df>>

\* compute_indicators(prices, config)
call_compute_indicators(prices) ==
    /\ run = NoRun
    /\ run' = Called("call:compute_indicators", prices, compute_indicators(prices))
    /\ UNCHANGED <<cfg, df_raw, df_transformed, hist, last, nhist, csv, remote, requests,
                   db, xlsx, sink, df>>

InitIndicators ==
    /\ cfg = ConfigOf(NoColumns, NoColumns, FALSE, FALSE)
    /\ df_raw = [p \in Pipelines |-> None]
    /\ df_transformed = [p \in Pipelines |-> None]
    /\ hist = [p \in Pipelines |-> [extract |-> FALSE, transform |-> FALSE, raised |-> FALSE]]
    /\ last = NoCall
    /\ nhist = <<>>
    /\ csv = [readable |-> FALSE, frame |-> <<>>]
    /\ remote = [up |-> FALSE, frame |-> NoWide]
    /\ requests = <<>>
    /\ db = EmptyStore
    /\ xlsx = NoArtifact
    /\ sink = [excel |-> TRUE, db |-> TRUE]
    /\ df = {}
    /\ run = NoRun

NextIndicators ==
    \E prices \in PriceSeries :
        \/ call_compute_sharpe(prices)
        \/ call_compute_max_drawdown(prices)
        \/ call_compute_indicators(prices)

SpecIndicators == InitIndicators /\ [][NextIndicators]_vars

(***************************************************************************)
(* The methods of PortfolioDashboard called on their own, with any window  *)
(* and any selection.  The methods leave the object as it is, so one call  *)
(* on a newly built dashboard stands for a call at any time.               *)
(***************************************************************************)
\* dashboard.get_tickers_in_period(start_date, end_date)
call_get_tickers_in_period(start_date, end_date) ==
    /\ run = NoRun
    /\ run' = Run("call:get_tickers_in_period", start_date, end_date,
                  get_tickers_in_period(df, start_date, end_date), {}, FALSE,
                  NotPrepared, <<>>, <<>>)
    /\ UNCHANGED <<cfg, df_raw, df_transformed, hist, last, nhist, csv, remote, requests,
                   db, xlsx, sink, df>>

\* dashboard.prepare_data(start_date, end_date, tickers)
call_prepare_data(start_date, end_date, tickers) ==
    /\ run = NoRun
    /\ \E prepared \in {prepare_data(df, start_date, end_date, tickers)} :
          run' = Run(IF prepared.raised THEN "call:prepare_data ValueError"
                     ELSE "call:prepare_data",
                     start_date, end_date, {}, tickers, FALSE,
                     prepared, prepared.messages, <<>>)
    /\ UNCHANGED <<cfg, df_raw, df_transformed, hist, last, nhist, csv, remote, requests,
                   db, xlsx, sink, df>>

\* the dates a caller may pass: the trading days and a day on either side
CallDates == 0..(NumDays + 1)

InitMethods ==
    /\ InitDash
    /\ cfg = ConfigOf(NoColumns, NoColumns, FALSE, FALSE)

NextMethods ==
    \/ \E start_date \in CallDates, end_date \in CallDates :
          call_get_tickers_in_period(start_date, end_date)
    \/ \E start_date \in CallDates, end_date \in CallDates,
          tickers \in (SUBSET DashTickers) \ {{}} :
          call_prepare_data(start_date, end_date, tickers)

SpecMethods == InitMethods /\ [][NextMethods]_vars

(***************************************************************************)
(* Properties of the normaliser, checked under SpecNorm                    *)
(***************************************************************************)
MetaColumns == cfg["metadata"].columns
MetaRaw == df_raw["metadata"].frame
MetaOut == df_transformed["metadata"].frame

MetaTransformed ==
    last.op = "transform" /\ last.p = "metadata" /\ last.outcome = "ok"

\* the input columns whose name is not listed in drop, in input order
Surviving(f, columns) == SelectSeq(f, LAMBDA c : c.name \notin columns.columns_to_drop)

\* C3 as stated: after transform() no column of the output carries a name
\* listed in the drop group, a rename onto such a name included.
C3_DroppedNameNeverInOutput ==
    MetaTransformed => \A n \in MetaColumns.columns_to_drop : ~HasCol(MetaOut, n)

\* C3 amended: no input column whose name is listed in drop is carried into the
\* output (the output has exactly the surviving columns), and a name listed in
\* drop appears in the output only where the rename mapping maps a surviving
\* column onto it.
C3_DroppedColumnsNotCarried ==
    MetaTransformed =>
        /\ Len(MetaOut) = Cardinality(Names(MetaRaw) \ MetaColumns.columns_to_drop)
        /\ \A n \in MetaColumns.columns_to_drop :
              HasCol(MetaOut, n) =>
                  \E m \in Names(MetaRaw) \ MetaColumns.columns_to_drop :
                      NewName(MetaColumns, m) = n

\* C3 witness: a column listed in drop was in the input, and the output has a
\* column of that name, renamed onto it.
C3_Witness ==
    /\ MetaTransformed
    /\ \E n \in MetaColumns.columns_to_drop : HasCol(MetaRaw, n) /\ HasCol(MetaOut, n)

NotADate(c) == c.k = "str" /\ c.v \notin DateStrings
NotANumber(c) == c.k = "str" /\ c.v \notin (NumericStrings \cup {"nan"})

\* positions <<i, j>> of the surviving columns holding a value its type rule
\* cannot parse
Positions(f) == UNION {{<<i, j>> : j \in DOMAIN f[i].vals} : i \in DOMAIN f}

UnparseableDates(f, columns) ==
    {q \in Positions(f) :
        /\ f[q[1]].name \in columns.columns_date
        /\ NotADate(f[q[1]].vals[q[2]])}

NonNumbers(f, columns) ==
    {q \in Positions(f) :
        /\ f[q[1]].name \in columns.columns_numeric \ columns.columns_date
        /\ NotANumber(f[q[1]].vals[q[2]])}

BadValues ==
    UnparseableDates(Surviving(MetaRaw, MetaColumns), MetaColumns)
        \cup NonNumbers(Surviving(MetaRaw, MetaColumns), MetaColumns)

\* C4 as stated: an unparseable value of a date-tagged column and a non-number
\* of a numeric-tagged column become missing in the output, and transform()
\* does not raise.
C4_BadValueBecomesMissing ==
    (last.op = "transform" /\ BadValues # {}) =>
        /\ last.outcome = "ok"
        /\ \A q \in BadValues : IsMissing(MetaOut[q[1]].vals[q[2]])

\* C4 amended: an unparseable value of a date-tagged column, and a non-number of
\* a numeric-tagged column that is not also date-tagged, makes transform() raise
\* and df_transformed keeps the value it had; nothing is coerced to missing.
C4_BadValueRaises ==
    [][(last'.op = "transform" /\ BadValues' # {}) =>
           /\ last'.outcome = "transform error"
           /\ df_transformed' = df_transformed]_vars

\* C4 witness: transform() was called on a frame with an unparseable date and
\* on one with a non-number.
C4_Witness ==
    /\ last.op = "transform"
    /\ UnparseableDates(Surviving(MetaRaw, MetaColumns), MetaColumns) # {}
    /\ NonNumbers(Surviving(MetaRaw, MetaColumns), MetaColumns) # {}

\* C5 as stated: every input column listed in the string group (and not
\* dropped) is text in the output, under its new name when it is renamed.
C5_StringColumnsAreText ==
    MetaTransformed =>
        LET kept == Surviving(MetaRaw, MetaColumns)
        IN  \A i \in DOMAIN kept :
                kept[i].name \in MetaColumns.columns_string =>
                    /\ MetaOut[i].name = NewName(MetaColumns, kept[i].name)
                    /\ \A j \in DOMAIN MetaOut[i].vals : MetaOut[i].vals[j].k = "str"

C1_DropAllLeavesOnlyNewTables ==
    (last.op = "dataframes_to_db" /\ last.drop_all_tables) =>
        Existing(db) = DOMAIN last.dataframes

\* C8: dataframes_to_excel into an existing artifact replaces the sheets named by
\* the keys and leaves every other sheet as it was; into no artifact, it
\* creates one with exactly the exported sheets.
C8_ExcelReplacesOnlyMatchingSheets ==
    [][last'.op = "dataframes_to_excel" =>
          /\ xlsx'.exists
          /\ \A t \in DOMAIN last'.dataframes :
                xlsx'.sheets[t] = Table(<<last'.dataframes[t]>>)
          /\ \A t \in TableNames \ DOMAIN last'.dataframes :
                xlsx'.sheets[t] = IF xlsx.exists THEN xlsx.sheets[t] ELSE NoTable]_vars

\* C8 witness: the artifact holds a sheet that the last export did not name,
\* next to the sheets it wrote.
C8_Witness ==
    /\ last.op = "dataframes_to_excel"
    /\ Cardinality(DOMAIN last.dataframes) = 2
    /\ Existing(xlsx.sheets) \ DOMAIN last.dataframes # {}

(***************************************************************************)
(* Properties of the pipeline objects, checked under SpecEtl               *)
(***************************************************************************)
\* C2: transform() while no extract() has succeeded raises "No data to
\* transform.", load() while no transform() has succeeded raises "No data to
\* load.", and either leaves df_raw, df_transformed and the sinks as they were.
C2_SequencingErrors ==
    [][\A p \in Pipelines :
          /\ (last'.op = "transform" /\ last'.p = p /\ ~hist[p].extract) =>
                 /\ last'.outcome = "No data to transform."
                 /\ UNCHANGED <<df_raw, df_transformed, db, xlsx>>
          /\ (last'.op = "load" /\ last'.p = p /\ ~hist[p].transform) =>
                 /\ last'.outcome = "No data to load."
                 /\ UNCHANGED <<df_raw, df_transformed, db, xlsx>>]_vars

\* C2 witness: load() raised "No data to load." on an object whose extract()
\* had succeeded and whose transform() had raised.
C2_Witness ==
    /\ last.op = "load"
    /\ last.outcome = "No data to load."
    /\ hist[last.p].extract
    /\ \E q \in Pipelines : q # last.p /\ ~hist[q].extract

(***************************************************************************)
(* Properties of the benchmark reshape, checked under SpecReshape          *)
(***************************************************************************)
BenchRaw == df_raw["benchmark"].frame
BenchOut == df_transformed["benchmark"].frame
BenchColumnsCfg == cfg["benchmark"].columns

BenchTransformed ==
    last.op = "transform" /\ last.p = "benchmark" /\ last.outcome = "ok"

\* the (date, ticker) of the wide frame's positions with a non-missing field
QuotedPairs(w) ==
    {<<w.index[q[1]], w.tickers[q[2]]>> :
        q \in {r \in (DOMAIN w.index) \X (DOMAIN w.tickers) :
                  \E fld \in Fields : ~IsMissing(w.cell[r][fld])}}

\* the (date, ticker) of each row of the long frame
RowPairs(f, columns) ==
    LET dates == ColumnNamed(f, NewName(columns, "Date")).vals
        tickers == ColumnNamed(f, NewName(columns, "Ticker")).vals
    IN  [k \in DOMAIN dates |-> <<dates[k].v, tickers[k].v>>]

\* C7: the reshape yields exactly one row per (date, instrument) of the wide
\* frame with a non-missing field: none for a pair with all five fields
\* missing, one for a pair with some missing, none for any other pair.
C7_OneRowPerQuotedPair ==
    BenchTransformed =>
        LET rows == RowPairs(BenchOut, BenchColumnsCfg)
        IN  /\ {rows[k] : k \in DOMAIN rows} = QuotedPairs(BenchRaw)
            /\ Len(rows) = Cardinality(QuotedPairs(BenchRaw))

\* C7 witness: the wide frame had a pair with every field missing, a pair with
\* some fields missing and a pair with none missing, and was reshaped.
C7_Witness ==
    /\ BenchTransformed
    /\ \E q \in DOMAIN BenchRaw.cell : BenchRaw.cell[q] = MissingRow
    /\ \E q \in DOMAIN BenchRaw.cell : BenchRaw.cell[q] = NoCloseRow
    /\ \E q \in DOMAIN BenchRaw.cell : BenchRaw.cell[q] = FullRow
    /\ Len(BenchOut[1].vals) < Len(Pairs(BenchRaw))


(***************************************************************************)
(* Properties of the dashboard, checked under SpecDash                     *)
(***************************************************************************)
Displayed == run.step # "none"

\* the run got as far as asking for the tickers
AskedTickers == Displayed /\ run.start_date < run.end_date

NoTickerInPeriod ==
    AskedTickers /\ get_tickers_in_period(df, run.start_date, run.end_date) = {}

EmptySelection ==
    AskedTickers /\ ~NoTickerInPeriod /\ run.tickers = {}

Analysed == AskedTickers /\ run.tickers # {} /\ run.pressed

FilteredEmpty ==
    Analysed /\ {r \in InPeriod(df, run.start_date, run.end_date) :
                    r.ticker \in run.tickers} = {}

PivotEmpty ==
    Analysed /\ ~FilteredEmpty
             /\ pivot_dropna({r \in InPeriod(df, run.start_date, run.end_date) :
                                 r.ticker \in run.tickers}) = {}

HaltedWith(level) ==
    /\ run.indicator_calls = <<>>
    /\ run.messages # <<>>
    /\ run.messages[Len(run.messages)].level = level

C10_CommonDatesWithinBoth ==
    (run.step = "show_comparisons") =>
        /\ run.common_dates \subseteq run.df_pivot
        /\ run.common_dates \subseteq run.df_bench_pivot
        /\ Cardinality(run.common_dates) <= Cardinality(run.df_pivot)
        /\ Cardinality(run.common_dates) <= Cardinality(run.df_bench_pivot)
        /\ Len(run.portfolio_prices) = Cardinality(run.common_dates)
        /\ Len(run.benchmark_prices) = Cardinality(run.common_dates)

C10_Witness ==
    /\ run.step = "show_comparisons"
    /\ run.common_dates # {}
    /\ run.common_dates # run.df_pivot
    /\ run.df_pivot = pivot_dropna(run.filtered)


(***************************************************************************)
(* Properties of the dashboard's methods, checked under SpecMethods        *)
(***************************************************************************)
PricedOn(d, t) == \E r \in df : r.date = d /\ r.ticker = t /\ ~r.close.nan

\* C11: for any selection S passed to prepare_data, also one holding an
\* instrument without a row in the window, every date retained in the
\* selection's price matrix has a non-missing close for every instrument of S.
C11_RetainedDatesPricedForAllOfS ==
    (run.step = "call:prepare_data") =>
        \A d \in run.df_pivot : \A t \in run.tickers : PricedOn(d, t)

\* C13: get_tickers_in_period(start, end) returns exactly the tickers with a row
\* dated within [start, end], both ends included; nothing for a window strictly
\* outside the data's dates, something for the window [min_date, max_date].
C13_TickersInPeriodExact ==
    (run.step = "call:get_tickers_in_period") =>
        /\ \A t \in DashTickers :
              t \in run.tickers_in_period <=>
                  \E r \in df : /\ r.ticker = t
                                /\ ~(r.date < run.start_date)
                                /\ ~(run.end_date < r.date)
        /\ (run.end_date < MinDate \/ run.start_date > MaxDate) =>
              run.tickers_in_period = {}
        /\ (run.start_date = MinDate /\ run.end_date = MaxDate) =>
              run.tickers_in_period # {}

C13_Witness ==
    /\ run.step = "call:get_tickers_in_period"
    /\ run.start_date = run.end_date
    /\ run.tickers_in_period = {"B"}
    /\ \E r \in df : r.ticker = "A"


(***************************************************************************)
(* Properties of the indicator functions, checked under SpecIndicators     *)
(***************************************************************************)
Constant(prices) == \A i, j \in DOMAIN prices : prices[i] = prices[j]
NonDecreasing(prices) == \A i, j \in DOMAIN prices : i <= j => prices[i] <= prices[j]

\* C14: compute_sharpe raises the degenerate-volatility error on
\* the daily returns of a constant price series of any length, one or two
\* points included.
C14_ConstantSeriesRaises ==
    (run.step = "call:compute_sharpe" /\ run.portfolio_prices # <<>>
        /\ Constant(run.portfolio_prices)) =>
        run.indicator_calls[1].end = "Volatility is zero"

\* C15: compute_max_drawdown is at most 0 on every non-empty strictly positive
\* price series, and exactly 0 on every non-decreasing one.
C15_MaxDrawdownNotPositive ==
    (run.step = "call:compute_max_drawdown" /\ run.portfolio_prices # <<>>) =>
        LET max_dd == run.indicator_calls[1].max_dd
        IN  /\ ~IsNaNValue(max_dd)
            /\ max_dd.num <= 0
            /\ NonDecreasing(run.portfolio_prices) => max_dd.num = 0

C15_Witness ==
    /\ run.step = "call:compute_max_drawdown"
    /\ run.portfolio_prices = <<66, 72, 60, 66>>
    /\ Same(run.indicator_calls[1].max_dd, Quot(0 - 1, 6))


(***************************************************************************)
(* The worked example, checked under SpecScenario                          *)
(***************************************************************************)
\* the request of the example: S = {A, B} over the three days, on which C has
\* no row
ScenarioRequest ==
    /\ run.step = "show_comparisons"
    /\ run.tickers = {"A", "B"}
    /\ run.start_date = 1
    /\ run.end_date = Cardinality(ScenarioDays)
    /\ "C" \notin run.tickers_in_period

\* C12: with closes A = [10, 11, 12] and B = [20, 19, 21] on three dates and no
\* row for C in the window, prepare_data for S = {A, B} yields the 3-point
\* portfolio series [15, 15, 16.5], whose cumulative return is 0.10.
C12_ScenarioSeriesAndReturn ==
    ScenarioRequest =>
        /\ run.portfolio_prices = <<6 * 15, 6 * 15, 3 * 33>>
        /\ run.indicator_calls[1].end = "ok"
        /\ Same(run.indicator_calls[1].perf, Quot(10, 100))

C12_Witness ==
    /\ ScenarioRequest
    /\ Len(run.portfolio_prices) = 3
    /\ Len(run.indicator_calls) = 2


(***************************************************************************)
(* Properties of the merged view, checked under SpecData                   *)
(***************************************************************************)
PriceTable == db["benchmark"].rows
MetaTable == db["metadata"].rows
Count(rows, P(_)) == Cardinality({i \in DOMAIN rows : P(rows[i])})
IsPrice(m, q) == m.date = q.date /\ m.ticker = q.ticker /\ m.close = q.close

\* C16: the merged view is a left join of the price table with the metadata
\* table on ticker: every price row appears in it, a price row whose ticker has
\* no metadata row appears once, with null attributes, and with unique tickers
\* in the metadata table it has as many rows as the price table.
C16_MergedIsLeftJoin ==
    df.loaded =>
        /\ \A i \in DOMAIN PriceTable :
              \E k \in DOMAIN df.rows : IsPrice(df.rows[k], PriceTable[i])
        /\ \A t \in DataTickers :
              (\A j \in DOMAIN MetaTable : MetaTable[j].ticker # t) =>
                  /\ Count(df.rows, LAMBDA m : m.ticker = t)
                        = Count(PriceTable, LAMBDA q : q.ticker = t)
                  /\ \A k \in DOMAIN df.rows :
                        df.rows[k].ticker = t => IsMissing(df.rows[k].sector)
        /\ (\A i, j \in DOMAIN MetaTable :
                MetaTable[i].ticker = MetaTable[j].ticker => i = j) =>
              Len(df.rows) = Len(PriceTable)

C16_Witness ==
    /\ df.loaded
    /\ Len(PriceTable) = 2
    /\ \E i \in DOMAIN PriceTable : PriceTable[i].ticker = "A"
    /\ \E i \in DOMAIN PriceTable : PriceTable[i].ticker = "B"
    /\ MetaTable = <<MetaRecord("A", Str("tech"))>>
    /\ Len(df.rows) = 2

(***************************************************************************)
(* Connections of the relational store, checked under SpecDb               *)
(***************************************************************************)
\* C17: after dataframes_to_db or Data.load_df_from_db has returned or raised,
\* no connection opened by that operation is still open.
C17_ConnectionsClosed ==
    (last.op \in {"dataframes_to_db", "load_df_from_db"}) => last.connections = 0


(***************************************************************************)
(* Retries and the extract of the benchmark, checked under SpecEtl         *)
(***************************************************************************)
\* the step is a call of op on the pipeline object p
IsCall(op, p) ==
    /\ last'.op = op
    /\ last'.p = p
    /\ UNCHANGED <<csv, remote, sink>>

TickerColumn == cfg["benchmark"].tickers_info_column

\* the file and, for the benchmark, the price source can be read
SourcesWork(p) ==
    /\ csv.readable
    /\ p = "benchmark" => HasCol(csv.frame, TickerColumn) /\ remote.up

\* the frame extracted holds nothing the transform cannot convert
RawConverts(p) ==
    \/ p = "benchmark"
    \/ UnparseableDates(Surviving(df_raw[p].frame, cfg[p].columns), cfg[p].columns)
          \cup NonNumbers(Surviving(df_raw[p].frame, cfg[p].columns), cfg[p].columns) = {}

SheetOf(p) == IF p = "metadata" THEN cfg.metadata_sheet ELSE cfg.benchmark_sheet

\* C18: whatever has raised before, extract() succeeds when its sources work,
\* transform() succeeds on an extracted frame it can convert, and load()
\* succeeds when the sinks work and leaves in the store and in the Excel file
\* exactly the frame transformed last.
C18_StagesRetryable ==
    [][\A p \in Pipelines :
          /\ (IsCall("extract", p) /\ SourcesWork(p)) =>
                 /\ last'.outcome = "ok"
                 /\ df_raw'[p].some
                 /\ p = "metadata" => df_raw'[p].frame = csv.frame
                 /\ p = "benchmark" => df_raw'[p].frame.index = remote.frame.index
          /\ (IsCall("transform", p) /\ df_raw[p].some /\ RawConverts(p)) =>
                 /\ last'.outcome = "ok"
                 /\ df_transformed'[p].some
          /\ (IsCall("load", p) /\ df_transformed[p].some /\ sink.excel /\ sink.db) =>
                 /\ last'.outcome = "ok"
                 /\ db'[SheetOf(p)] = Table(<<df_transformed[p].frame>>)
                 /\ xlsx'.sheets[SheetOf(p)] = Table(<<df_transformed[p].frame>>)]_vars

\* C18 witness: a load() of the benchmark that succeeded, after an extract and a
\* transform that succeeded, on an object one of whose calls had raised, into
\* a store that already held both tables.
C18_Witness ==
    /\ last.op = "load" /\ last.p = "benchmark" /\ last.outcome = "ok"
    /\ hist["benchmark"].raised
    /\ hist["benchmark"].extract /\ hist["benchmark"].transform
    /\ db["benchmark"] = Table(<<df_transformed["benchmark"].frame>>)
    /\ db["metadata"].exists

\* C19: when the configured ticker column is absent from the metadata file,
\* BenchmarkETL.extract() fails with 'Ticker column missing', sends no request
\* to the price source and leaves df_raw as it was.
C19_MissingTickerColumn ==
    [][(IsCall("extract", "benchmark") /\ csv.readable
          /\ ~HasCol(csv.frame, TickerColumn)) =>
           /\ last'.outcome = "Ticker column missing"
           /\ requests' = <<>>
           /\ UNCHANGED <<df_raw, df_transformed>>]_vars

C19_Witness ==
    /\ last.op = "extract" /\ last.p = "benchmark"
    /\ last.outcome = "Ticker column missing"
    /\ df_raw["benchmark"].some
    /\ requests = <<>>
    /\ remote.up

\* the non-missing values of the ticker column of the file
TickersOfFile ==
    {c.v : c \in {ColumnNamed(csv.frame, TickerColumn).vals[i] :
                     i \in DOMAIN ColumnNamed(csv.frame, TickerColumn).vals} \ {NaN}}

\* C20: a call of BenchmarkETL.extract() sends at most one request to the price
\* source, for the tickers of the file without the missing and the repeated
\* ones; when the request fails, extract() raises after that one request and
\* df_raw is as it was.
C20_OneRequestPerExtract ==
    [][IsCall("extract", "benchmark") =>
           /\ Len(requests') <= 1
           /\ \A k \in DOMAIN requests' :
                 /\ {requests'[k][i] : i \in DOMAIN requests'[k]} = TickersOfFile
                 /\ \A i, j \in DOMAIN requests'[k] :
                       requests'[k][i] = requests'[k][j] => i = j
           /\ (csv.readable /\ HasCol(csv.frame, TickerColumn) /\ ~remote.up) =>
                 /\ last'.outcome = "io error"
                 /\ Len(requests') = 1
                 /\ UNCHANGED <<df_raw, df_transformed>>]_vars

C20_Witness ==
    /\ last.op = "extract" /\ last.p = "benchmark"
    /\ last.outcome = "io error"
    /\ requests = << <<"A", "B">> >>
    /\ df_raw["benchmark"].some
    /\ Len(ColumnNamed(csv.frame, TickerColumn).vals) > 2


\* C21: transform() of either pipeline, whether it succeeds or raises, leaves
\* df_raw as the last successful extract() stored it.
C21_TransformKeepsRaw ==
    [][\A p \in Pipelines : IsCall("transform", p) => df_raw'[p] = df_raw[p]]_vars

C21_Witness ==
    /\ last.op = "transform" /\ last.p = "metadata"
    /\ last.outcome = "transform error"
    /\ df_raw["metadata"].some
    /\ df_raw["metadata"].frame = csv.frame
    /\ df_transformed["metadata"].some


(***************************************************************************)
(* The size of the selection, checked under SpecSelect                     *)
(***************************************************************************)
\* C22: for every configured maximum M (streamlit.portfolio.max_nb_tickers), no
\* selection with more than M instruments reaches prepare_data.
C22_SelectionWithinConfiguredMax ==
    (run.step \in {"prepare_data", "show_comparisons"}) =>
        Cardinality(run.tickers) <= cfg.streamlit.portfolio.max_nb_tickers

(***************************************************************************)
(* The index column of an exported sheet, checked under SpecIndex          *)
(***************************************************************************)
\* dtypes an index may have; a multi-level index reports dtype object
IndexDtypes == {"int64", "int32", "float64", "object", "datetime64[ns]"}
IntegerDtypes == {"int64", "int32"}
Levels == {1, 2}

\* what dataframes_to_excel looks at in a frame: isinstance(df.columns,
\* pd.MultiIndex), df.index.nlevels and df.index.dtype
FrameShapes ==
    {f \in [columns_nlevels : Levels, index_nlevels : Levels, index_dtype : IndexDtypes] :
        f.index_nlevels > 1 => f.index_dtype = "object"}

\* an export that writes the index only of a single-level non-integer index
to_excel_index_single(frame) ==
    /\ frame.columns_nlevels = 1
    /\ frame.index_nlevels = 1
    /\ frame.index_dtype \notin IntegerDtypes

\* the index= argument each branch gives DataFrame.to_excel (True when omitted)
to_excel_index(frame) ==
    IF frame.columns_nlevels > 1 THEN TRUE
    ELSE IF frame.index_dtype = "int64" /\ frame.index_nlevels = 1 THEN FALSE
    ELSE TRUE

ShapeDicts ==
    UNION {[keys -> FrameShapes] :
              keys \in {ks \in SUBSET TableNames : Cardinality(ks) \in {1, 2}}}

\* dataframes_to_excel on frames described by their shape: df holds the
\* dictionary handed over, last the index= of every sheet written
call_dataframes_to_excel ==
    /\ last = NoCall
    /\ xlsx' = [exists |-> TRUE,
                sheets |-> [t \in TableNames |->
                               IF t \in DOMAIN df THEN Table(<<df[t]>>) ELSE NoTable]]
    /\ last' = [op |-> "dataframes_to_excel", p |-> "none", outcome |-> "ok",
                dataframes |-> df, drop_all_tables |-> FALSE, append_data |-> FALSE,
                connections |-> 0,
                index |-> [t \in DOMAIN df |-> to_excel_index(df[t])]]
    /\ UNCHANGED <<cfg, df_raw, df_transformed, hist, nhist, csv, remote, requests, db,
                   sink, df, run>>

InitIndex ==
    /\ cfg = ConfigOf(NoColumns, NoColumns, FALSE, FALSE)
    /\ df_raw = [p \in Pipelines |-> None]
    /\ df_transformed = [p \in Pipelines |-> None]
    /\ hist = [p \in Pipelines |-> [extract |-> FALSE, transform |-> FALSE, raised |-> FALSE]]
    /\ last = NoCall
    /\ nhist = <<>>
    /\ csv = [readable |-> FALSE, frame |-> <<>>]
    /\ remote = [up |-> FALSE, frame |-> NoWide]
    /\ requests = <<>>
    /\ db = EmptyStore
    /\ xlsx = NoArtifact
    /\ sink = [excel |-> TRUE, db |-> TRUE]
    /\ df \in ShapeDicts
    /\ run = NoRun

NextIndex == call_dataframes_to_excel

SpecIndex == InitIndex /\ [][NextIndex]_vars

IndexExported == last.op = "dataframes_to_excel" /\ "index" \in DOMAIN last

\* C23 as stated: the index of a sheet is written only for a frame with a
\* single-level non-integer index; for a default positional index, an integer
\* index, a multi-level index or multi-level columns it is omitted.
C23_IndexOnlySingleNonInteger ==
    IndexExported =>
        \A t \in DOMAIN last.dataframes :
            last.index[t] <=>
                /\ last.dataframes[t].columns_nlevels = 1
                /\ last.dataframes[t].index_nlevels = 1
                /\ last.dataframes[t].index_dtype \notin IntegerDtypes

\* C23 amended: the index of a sheet is omitted exactly for a frame with
\* single-level columns and a single-level int64 index (the default positional
\* index included); it is written for a single-level index of any other dtype,
\* for a multi-level index and for every frame with multi-level columns.
C23_IndexOmittedOnlyForInt64 ==
    IndexExported =>
        \A t \in DOMAIN last.dataframes :
            LET f == last.dataframes[t] IN
            /\ (f.columns_nlevels > 1 \/ f.index_nlevels > 1) => last.index[t]
            /\ (f.columns_nlevels = 1 /\ f.index_nlevels = 1) =>
                   (last.index[t] <=> f.index_dtype # "int64")

\* C23 witness: one export wrote a sheet without its int64 index and a sheet of
\* a frame with multi-level columns with its index
C23_Witness ==
    /\ IndexExported
    /\ \E t, u \in DOMAIN last.dataframes :
          /\ last.dataframes[t].columns_nlevels = 1
          /\ last.dataframes[t].index_dtype = "int64"
          /\ ~last.index[t]
          /\ last.dataframes[u].columns_nlevels = 2
          /\ last.index[u]

(***************************************************************************)
(* Serialisation of a dictionary to a file, checked under SpecSerialize    *)
(***************************************************************************)
\* a path is the sequence of the pieces of its file name, "." being a piece
SerializePaths ==
    UNION {{<<stem, ".", "yaml">>, <<stem, ".", "json">>, <<stem, ".", "toml">>,
            <<stem, ".", "yml">>, <<stem, ".", "txt">>, <<stem>>,
            <<stem, ".", "json", ".", "bak">>} : stem \in {"conf", "out"}}
        \cup {<<".", "yaml">>}

\* os.path.splitext: the extension starts at the last dot of the name, leading
\* dots not counted; the result is <<root, extension>>
splitext(path) ==
    LET dots == {i \in 2..Len(path) : path[i] = "."} IN
    IF dots = {} THEN <<path, <<>>>>
    ELSE LET k == CHOOSE i \in dots : \A j \in dots : j <= i
         IN <<SubSeq(path, 1, k - 1), SubSeq(path, k, Len(path))>>

\* the dump the extension selects
DumpOf(extension) ==
    IF extension = <<".", "yaml">> THEN "yaml"
    ELSE IF extension = <<".", "json">> THEN "json"
    ELSE IF extension = <<".", "toml">> THEN "toml"
    ELSE "none"

SerializeData ==
    UNION {[keys -> {0, 1}] : keys \in SUBSET {"a", "b"}}

\* dict_to_serialized_file: open(path, "w") creates or truncates the file, the
\* branch of the extension dumps into it, and the raise that follows the
\* branches inside the with block is reached on every path
dict_to_serialized_file(data, path) ==
    /\ last = NoCall
    /\ last' = [op |-> "dict_to_serialized_file", p |-> "none",
                outcome |-> "ValueError", dataframes |-> NoFrames,
                drop_all_tables |-> FALSE, append_data |-> FALSE, connections |-> 0,
                path |-> path, data |-> data,
                file |-> [exists |-> TRUE, format |-> DumpOf(splitext(path)[2]),
                          content |-> IF DumpOf(splitext(path)[2]) = "none"
                                      THEN <<>> ELSE <<data>>]]
    /\ UNCHANGED <<cfg, df_raw, df_transformed, hist, nhist, csv, remote, requests, db,
                   xlsx, sink, df, run>>

InitSerialize ==
    /\ cfg = ConfigOf(NoColumns, NoColumns, FALSE, FALSE)
    /\ df_raw = [p \in Pipelines |-> None]
    /\ df_transformed = [p \in Pipelines |-> None]
    /\ hist = [p \in Pipelines |-> [extract |-> FALSE, transform |-> FALSE, raised |-> FALSE]]
    /\ last = NoCall
    /\ nhist = <<>>
    /\ csv = [readable |-> FALSE, frame |-> <<>>]
    /\ remote = [up |-> FALSE, frame |-> NoWide]
    /\ requests = <<>>
    /\ db = EmptyStore
    /\ xlsx = NoArtifact
    /\ sink = [excel |-> TRUE, db |-> TRUE]
    /\ df = {}
    /\ run = NoRun

NextSerialize ==
    \E data \in SerializeData, path \in SerializePaths :
        dict_to_serialized_file(data, path)

SpecSerialize == InitSerialize /\ [][NextSerialize]_vars

\* C24: a call of dict_to_serialized_file with a path ending in .yaml, .json or
\* .toml writes the dictionary and returns without raising.
C24_SupportedExtensionReturns ==
    (last.op = "dict_to_serialized_file" /\ DumpOf(splitext(last.path)[2]) # "none") =>
        /\ last.file.content = <<last.data>>
        /\ last.outcome = "ok"

(***************************************************************************)
(* main_etl: the metadata pipeline, then the benchmark pipeline, checked   *)
(* under SpecMain                                                          *)
(***************************************************************************)
\* the six calls of main_etl, in program order
MainCalls ==
    <<<<"extract", "metadata">>, <<"transform", "metadata">>, <<"load", "metadata">>,
      <<"extract", "benchmark">>, <<"transform", "benchmark">>, <<"load", "benchmark">>>>

\* how many calls of main_etl have returned; a call that raised ends main_etl
Returned ==
    IF last = NoCall THEN 0
    ELSE CHOOSE i \in 1..Len(MainCalls) : MainCalls[i] = <<last.op, last.p>>

main_etl_at(i) ==
    /\ last = NoCall \/ last.outcome = "ok"
    /\ Returned = i - 1
    /\ \/ MainCalls[i][1] = "extract" /\ extract(MainCalls[i][2])
       \/ MainCalls[i][1] = "transform" /\ transform(MainCalls[i][2])
       \/ MainCalls[i][1] = "load" /\ load(MainCalls[i][2])

\* a frame written to the store before main_etl starts
EarlierFrame == <<Column("a", <<Num("7")>>)>>

\* the stores main_etl may find: none, one of another program, one of an
\* earlier run
MainStores ==
    {EmptyStore,
     [EmptyStore EXCEPT !["old"] = Table(<<EarlierFrame>>)],
     [EmptyStore EXCEPT !["metadata"] = Table(<<EarlierFrame>>),
                        !["benchmark"] = Table(<<EarlierFrame>>)]}

InitMain ==
    /\ \E to_excel \in BOOLEAN, to_sqlite \in BOOLEAN :
          cfg = ConfigOf(MetadataColumns, BenchmarkColumns, to_excel, to_sqlite)
    /\ df_raw = [p \in Pipelines |-> None]
    /\ df_transformed = [p \in Pipelines |-> None]
    /\ hist = [p \in Pipelines |-> [extract |-> FALSE, transform |-> FALSE, raised |-> FALSE]]
    /\ last = NoCall
    /\ nhist = <<>>
    /\ csv \in CsvStates
    /\ remote \in RemoteStates
    /\ requests = <<>>
    /\ db \in MainStores
    /\ xlsx = NoArtifact
    /\ sink \in SinkStates
    /\ df = {}
    /\ run = NoRun

NextMain ==
    \/ \E i \in 1..Len(MainCalls) : main_etl_at(i)
    \/ metadata_file_changes
    \/ remote_changes
    \/ sink_changes

SpecMain == InitMain /\ [][NextMain]_vars

\* main_etl has run to its end
MainEtlCompleted == last.op = "load" /\ last.p = "benchmark" /\ last.outcome = "ok"

TransformOfRaw(p) ==
    IF p = "metadata"
    THEN metadata_transform(df_raw[p].frame, cfg[p].columns)
    ELSE benchmark_transform(df_raw[p].frame, cfg[p].columns)

\* C28: a load() that succeeds writes the transform of the raw frame the most
\* recent extract() stored, also when transform() was not called again after
\* that extract() or raised.
C28_LoadWritesTransformOfLatestRaw ==
    [][\A p \in Pipelines :
          (IsCall("load", p) /\ last'.outcome = "ok" /\ cfg.main_parameters.to_sqlite) =>
              IF df_raw[p].some
              THEN /\ TransformOfRaw(p).ok
                   /\ db'[SheetOf(p)] = Table(<<TransformOfRaw(p).frame>>)
              ELSE FALSE]_vars

(***************************************************************************)
(* The series prepare_data builds, checked under SpecDash                  *)
(***************************************************************************)
\* prepare_data got past "if df_result.empty" and "if df_pivot.empty"
PastEmptinessChecks == run.pressed /\ run.filtered # {} /\ run.df_pivot # {}

\* C26: when prepare_data gets past its two emptiness checks, the portfolio
\* series and the benchmark series it builds each hold at least one point, and
\* the call goes on to return them.
C26_SeriesNonEmptyPastChecks ==
    PastEmptinessChecks =>
        /\ Len(run.portfolio_prices) >= 1
        /\ Len(run.benchmark_prices) >= 1
        /\ run.step = "show_comparisons"

(***************************************************************************)
(* The dates of the two pivots of prepare_data, checked under SpecMethods  *)
(***************************************************************************)
PrepareDataCalled == run.step \in {"call:prepare_data", "call:prepare_data ValueError"}

\* every instrument of the selection has a row in the window
SelectionHasRows ==
    \A t \in run.tickers :
        \E r \in InPeriod(df, run.start_date, run.end_date) : r.ticker = t

DisplayedWithBuiltConfig ==
    run.step # "none" /\ cfg.benchmark.attributes = BenchmarkConfigFields

\* C29: display(), run with a Config built by get_config, reaches the date
\* selection: the benchmark name and the components URL it reads before
\* select_dates are fields of that Config.
C29_DisplayReachesDateSelection ==
    DisplayedWithBuiltConfig =>
        /\ {"name", "components_url"} \subseteq cfg.benchmark.attributes
        /\ run.step # "AttributeError"

\* display() got as far as select_dates
DatesSelected == run.step \notin {"none", "AttributeError"}

\* C30: for start >= end, a single-day window start = end included,
\* select_dates warns and returns (None, None), and display() returns without
\* select_tickers, prepare_data or compute_indicators; a run that computes
\* indicators has start < end.
C30_NoAnalysisUnlessStartBeforeEnd ==
    /\ (DatesSelected /\ run.start_date >= run.end_date) =>
           /\ run.step = "select_dates"
           /\ run.messages =
                  <<Msg("warning", "The end date must be later than the start date.")>>
           /\ run.tickers_in_period = {} /\ run.tickers = {}
           /\ ~run.pressed
           /\ run.filtered = {} /\ run.df_pivot = {}
           /\ run.indicator_calls = <<>>
    /\ (run.indicator_calls # <<>> /\ run.step = "show_comparisons") =>
           run.start_date < run.end_date

\* C30 witness: a run on a single-day window of a day on which an instrument
\* trades
C30_Witness ==
    /\ run.step = "select_dates"
    /\ run.start_date = run.end_date
    /\ \E r \in df : r.date = run.start_date
    /\ run.indicator_calls = <<>>

====
